---- MODULE Spec2Model ----
(***************************************************************************)
(* TMetricsPlotCalcer (catboost/libs/algo/plot.cpp): metrics of an         *)
(* additive tree ensemble at a sequence of checkpoints, with additive      *)
(* metrics merged chunk by chunk and non-additive metrics replayed from    *)
(* per-checkpoint snapshot files in windows of ProcessedIterationsStep     *)
(* checkpoints.                                                            *)
(*                                                                         *)
(* Conventions: checkpoint slots, metric indices and tree indices are      *)
(* 0-based as in the code; TLA+ sequences are 1-based, so slot k of a      *)
(* vector v is v[k + 1].  A prediction matrix is a sequence over the       *)
(* output dimensions of sequences over the documents.  Doubles are         *)
(* integers: the delta of tree t is a multiple of 4^t, so the set of trees *)
(* summed into a prediction can be read off its value.                     *)
(***************************************************************************)
EXTENDS Integers, Sequences, FiniteSets, TLC

(***************************************************************************)
(* Bounds of the model.                                                    *)
(***************************************************************************)
MaxLast == 4
MaxStep == 2
MaxWindow == 2
MaxFeeds == 2
MaxAdditiveFeeds == 1
MaxMetrics == 2
ApproxDimension == 2

FirstValues == {0, 1}

(***************************************************************************)
(* The dataset: two chunks, the first of two documents in two queries, the *)
(* second of one document.  A document is identified by a positive number. *)
(***************************************************************************)
Chunks == {1, 2}

DocsOf(c) == IF c = 1 THEN <<1, 2>> ELSE <<c + 1>>

QueriesOf(c) == IF c = 1 THEN << <<1, 1>>, <<2, 2>> >> ELSE << <<1, 1>> >>

TargetOf(d) == 2 * d

WeightOf(d) == d + 1

Coef(d, dim) == (d - 1) * ApproxDimension + dim

BaselineOf(d, dim) == Coef(d, dim) * (4 ^ MaxLast)

GetTarget(c) == [i \in 1..Len(DocsOf(c)) |-> TargetOf(DocsOf(c)[i])]

GetWeights(c) == [i \in 1..Len(DocsOf(c)) |-> WeightOf(DocsOf(c)[i])]

GetObjectCount(c) == Len(DocsOf(c))

(***************************************************************************)
(* Metrics.  A metric is [additive, errorType, param]; param tells two     *)
(* metrics of the same kind apart (it scales the statistics).              *)
(***************************************************************************)
ErrorTypes == {"PerObjectError", "QuerywiseError", "PairwiseError"}

MetricOf(additive, errorType, param) ==
    [additive |-> additive, errorType |-> errorType, param |-> param]

IsAdditiveMetric(metric) == metric.additive

GetErrorType(metric) == metric.errorType

(***************************************************************************)
(* TMetricHolder: a vector of statistics; Add sums it element by element.  *)
(***************************************************************************)
EmptyHolder == <<0, 0>>

HolderAdd(a, b) == <<a[1] + b[1], a[2] + b[2]>>

RECURSIVE SumSeq(_)
SumSeq(s) == IF s = <<>> THEN 0 ELSE s[1] + SumSeq(Tail(s))

Abs(x) == IF x < 0 THEN 0 - x ELSE x

\* The raw value of document i: the sum of its row over the dimensions.
DocApprox(approx, i) == SumSeq([dim \in 1..Len(approx) |-> approx[dim][i]])

\* IMetric::Eval of a per-object metric over the documents [begin, end).
EvalPerObject(metric, approx, target, weights, begin, end) ==
    << (metric.param + 1)
         * SumSeq([j \in 1..(end - begin) |->
                     weights[begin + j] * Abs(DocApprox(approx, begin + j) - target[begin + j])]),
       SumSeq([j \in 1..(end - begin) |-> weights[begin + j]]) >>

\* IMetric::Eval of a querywise or pairwise metric over the queries [begin, end).
EvalQuerywise(metric, approx, target, weights, queriesInfo, begin, end) ==
    << (metric.param + 1)
         * SumSeq([j \in 1..(end - begin) |->
                     SumSeq([i \in 1..(queriesInfo[begin + j][2] - queriesInfo[begin + j][1] + 1) |->
                               Abs(DocApprox(approx, queriesInfo[begin + j][1] + i - 1)
                                   - 3 * target[queriesInfo[begin + j][1] + i - 1])])]),
       end - begin >>

\* IMetric::Eval of a non-additive (rank-like) metric over the documents
\* [0, end): a statistic of every pair of documents ordered by target.
EvalNonAdditive(metric, approx, target, weights, end) ==
    << (metric.param + 1)
         * SumSeq([i \in 1..end |->
                     SumSeq([j \in 1..end |->
                               IF i < j /\ target[i] < target[j]
                               THEN weights[i] * Abs(DocApprox(approx, j) - 2 * DocApprox(approx, i))
                               ELSE 0])]),
       end >>

\* IMetric::GetFinalError: the statistics' ratio, scaled to an integer.
GetFinalError(metric, holder) ==
    IF holder[2] = 0 THEN 0 ELSE (holder[1] * 100) \div holder[2]

(***************************************************************************)
(* The Applier (TModelCalcerOnPool::ApplyModelMulti): the raw deltas of    *)
(* the trees [begin, end) for the documents of chunk c.                    *)
(***************************************************************************)
RECURSIVE TreeSum(_, _)
TreeSum(begin, end) == IF begin >= end THEN 0 ELSE (4 ^ begin) + TreeSum(begin + 1, end)

ApplyModelMulti(c, begin, end) ==
    [dim \in 1..ApproxDimension |->
        [i \in 1..GetObjectCount(c) |-> Coef(DocsOf(c)[i], dim) * TreeSum(begin, end)]]

(***************************************************************************)
(* The constructor.                                                        *)
(***************************************************************************)
\* plot.h: the range check the constructor starts with.
EnsureCorrectParams(first, last, step) == first < last /\ step >= 1

RECURSIVE IterationsLoop(_, _, _, _)
IterationsLoop(iteration, last, step, acc) ==
    IF iteration < last
    THEN IterationsLoop(iteration + step, last, step, Append(acc, iteration))
    ELSE acc

\* Mutant: the final checkpoint last - 1 is not appended.
BuildIterationsGridOnly(first, last, step) == IterationsLoop(first, last, step, <<>>)

BuildIterations(first, last, step) ==
    LET grid == IterationsLoop(first, last, step, <<>>)
    IN  IF grid[Len(grid)] # last - 1 THEN Append(grid, last - 1) ELSE grid

\* Mutant: the error-type check is applied to additive metrics as well.
RECURSIVE ClassifyLoopEnsureAll(_, _, _)
ClassifyLoopEnsureAll(metrics, metricIndex, acc) ==
    IF metricIndex >= Len(metrics) \/ ~acc.ok THEN acc
    ELSE LET metric == metrics[metricIndex + 1]
         IN  IF IsAdditiveMetric(metric)
             THEN ClassifyLoopEnsureAll(metrics, metricIndex + 1,
                    [acc EXCEPT !.AdditiveMetrics = Append(@, metric),
                                !.AdditiveMetricsIndices = Append(@, metricIndex),
                                !.ok = (GetErrorType(metric) = "PerObjectError")])
             ELSE ClassifyLoopEnsureAll(metrics, metricIndex + 1,
                    [acc EXCEPT !.NonAdditiveMetrics = Append(@, metric),
                                !.NonAdditiveMetricsIndices = Append(@, metricIndex),
                                !.ok = (GetErrorType(metric) = "PerObjectError")])

\* The classification loop over the supplied metrics, from metricIndex on;
\* acc.ok turns FALSE at the CB_ENSURE that throws.
RECURSIVE ClassifyLoop(_, _, _)
ClassifyLoop(metrics, metricIndex, acc) ==
    IF metricIndex >= Len(metrics) \/ ~acc.ok THEN acc
    ELSE LET metric == metrics[metricIndex + 1]
         IN  IF IsAdditiveMetric(metric)
             THEN ClassifyLoop(metrics, metricIndex + 1,
                    [acc EXCEPT !.AdditiveMetrics = Append(@, metric),
                                !.AdditiveMetricsIndices = Append(@, metricIndex)])
             ELSE ClassifyLoop(metrics, metricIndex + 1,
                    [acc EXCEPT !.NonAdditiveMetrics = Append(@, metric),
                                !.NonAdditiveMetricsIndices = Append(@, metricIndex),
                                !.ok = (GetErrorType(metric) = "PerObjectError")])

ClassifyMetrics(metrics) ==
    ClassifyLoop(metrics, 0,
        [ok |-> TRUE, AdditiveMetrics |-> <<>>, AdditiveMetricsIndices |-> <<>>,
         NonAdditiveMetrics |-> <<>>, NonAdditiveMetricsIndices |-> <<>>])

\* resize(count, TVector<TMetricHolder>(slots)): empty holders.
NewPlots(count, slots) == [m \in 1..count |-> [k \in 1..slots |-> EmptyHolder]]

\* No SaveResult call has been made.
NoLogger ==
    [saved |-> FALSE, first |-> 0, last |-> 0, period |-> 0,
     iterationsCount |-> 0, metrics |-> <<>>, rows |-> <<>>]

(***************************************************************************)
(* State.                                                                  *)
(***************************************************************************)
VARIABLES
    pc,                        \* "new", "ready", "rejected" (the constructor threw), "failed" (an operation threw)
    args,                      \* the constructor's arguments
    baselineChunks,            \* the chunks whose target data carries a baseline
    First, Last, Step,
    Iterations,
    AdditiveMetrics, AdditiveMetricsIndices,
    NonAdditiveMetrics, NonAdditiveMetricsIndices,
    AdditiveMetricPlots, NonAdditiveMetricPlots,
    ProcessedIterationsCount, ProcessedIterationsStep,
    NonAdditiveMetricsData,    \* [Target, Weights, ApproxFiles]
    LastApproxes,              \* the resume stream
    DeleteTmpDirOnExitFlag,
    tmpDirExists,              \* the file system: TmpDir exists
    files,                     \* the file system: path -> the records of the file
    guidCount,                 \* CreateGuidAsString: the number of GUIDs drawn
    additiveFed,               \* history: chunk -> ProceedDataSetForAdditiveMetrics calls
    windowFeeds,               \* history: the chunks fed to the window in production, in order
    firstFeeds,                \* history: the chunks fed to the first window, in order
    protocol,                  \* history: every finished window was fed as the first one was
    trace,                     \* history: the loads, evaluations, deletions and resume reads
    saved,                     \* history: slot -> the matrices handed to SaveApproxToFile
    logger                     \* SaveResult's output: the announced metadata and the logged rows

vars == <<pc, args, baselineChunks, First, Last, Step, Iterations,
          AdditiveMetrics, AdditiveMetricsIndices, NonAdditiveMetrics,
          NonAdditiveMetricsIndices, AdditiveMetricPlots, NonAdditiveMetricPlots,
          ProcessedIterationsCount, ProcessedIterationsStep, NonAdditiveMetricsData,
          LastApproxes, DeleteTmpDirOnExitFlag, tmpDirExists, files, guidCount,
          additiveFed, windowFeeds, firstFeeds, protocol, trace, saved, logger>>

\* Slot k of the checkpoint list (0-based, as in the code).
It(k) == Iterations[k + 1]

NoStream == [open |-> FALSE, path |-> <<>>, content |-> <<>>, pos |-> 0]

\* TIFStream(path) on an existing file.
OpenStream(fs, path) == [open |-> TRUE, path |-> path, content |-> fs[path], pos |-> 0]

Event(op, slot, who) == [op |-> op, slot |-> slot, who |-> who]

\* The part of the state the snapshot store works on, with the history of
\* its operations.
Store == [ApproxFiles |-> NonAdditiveMetricsData.ApproxFiles,
          files |-> files,
          tmpDirExists |-> tmpDirExists,
          DeleteTmpDirOnExitFlag |-> DeleteTmpDirOnExitFlag,
          guidCount |-> guidCount,
          trace |-> trace]

RemoveFile(fs, path) == [p \in (DOMAIN fs) \ {path} |-> fs[p]]

(***************************************************************************)
(* GetApproxFileName: the store after the call; the name it returns is     *)
(* ApproxFileName of that store.                                           *)
(***************************************************************************)
\* Mutant: the directory is marked whenever a name is made.
GetApproxFileNameMarkAlways(st, plotLineIndex) ==
    LET plotSize == plotLineIndex + 1
        resized == IF Len(st.ApproxFiles) < plotSize
                   THEN st.ApproxFiles \o [i \in 1..(plotSize - Len(st.ApproxFiles)) |-> <<>>]
                   ELSE st.ApproxFiles
        path == <<st.guidCount + 1, plotLineIndex>>
    IN  IF resized[plotLineIndex + 1] = <<>>
        THEN [ApproxFiles |-> [resized EXCEPT ![plotLineIndex + 1] = path],
              files |-> RemoveFile(st.files, path),
              tmpDirExists |-> TRUE,
              DeleteTmpDirOnExitFlag |-> TRUE,
              guidCount |-> st.guidCount + 1,
              trace |-> st.trace]
        ELSE [st EXCEPT !.ApproxFiles = resized]

GetApproxFileName(st, plotLineIndex) ==
    LET plotSize == plotLineIndex + 1
        resized == IF Len(st.ApproxFiles) < plotSize
                   THEN st.ApproxFiles \o [i \in 1..(plotSize - Len(st.ApproxFiles)) |-> <<>>]
                   ELSE st.ApproxFiles
        path == <<st.guidCount + 1, plotLineIndex>>
    IN  IF resized[plotLineIndex + 1] = <<>>
        THEN [ApproxFiles |-> [resized EXCEPT ![plotLineIndex + 1] = path],
              files |-> RemoveFile(st.files, path),
              tmpDirExists |-> TRUE,
              DeleteTmpDirOnExitFlag |-> st.DeleteTmpDirOnExitFlag \/ ~st.tmpDirExists,
              guidCount |-> st.guidCount + 1,
              trace |-> st.trace]
        ELSE [st EXCEPT !.ApproxFiles = resized]

ApproxFileName(st, plotLineIndex) == st.ApproxFiles[plotLineIndex + 1]

(***************************************************************************)
(* SaveApproxToFile: one record per document, the document's value in      *)
(* every dimension, appended to the slot's file.                           *)
(***************************************************************************)
\* Mutant: every component of a record is taken from the first dimension.
SaveApproxToFileFirstDim(st, plotLineIndex, approx) ==
    LET s1 == GetApproxFileName(st, plotLineIndex)
        fileName == ApproxFileName(s1, plotLineIndex)
        docCount == Len(approx[1])
        before == IF fileName \in DOMAIN s1.files THEN s1.files[fileName] ELSE <<>>
        lines == [i \in 1..docCount |-> [dim \in 1..Len(approx) |-> approx[1][i]]]
    IN  [s1 EXCEPT !.files = (fileName :> (before \o lines)) @@ s1.files]

\* Mutant: the file is opened without ForAppend and holds the last chunk only.
SaveApproxToFileTruncate(st, plotLineIndex, approx) ==
    LET s1 == GetApproxFileName(st, plotLineIndex)
        fileName == ApproxFileName(s1, plotLineIndex)
        docCount == Len(approx[1])
        lines == [i \in 1..docCount |-> [dim \in 1..Len(approx) |-> approx[dim][i]]]
    IN  [s1 EXCEPT !.files = (fileName :> lines) @@ s1.files]

SaveApproxToFile(st, plotLineIndex, approx) ==
    LET s1 == GetApproxFileName(st, plotLineIndex)
        fileName == ApproxFileName(s1, plotLineIndex)
        docCount == Len(approx[1])
        before == IF fileName \in DOMAIN s1.files THEN s1.files[fileName] ELSE <<>>
        lines == [i \in 1..docCount |-> [dim \in 1..Len(approx) |-> approx[dim][i]]]
    IN  [s1 EXCEPT !.files = (fileName :> (before \o lines)) @@ s1.files]

(***************************************************************************)
(* Load: docCount records from the stream into the columns 0..docCount-1   *)
(* of output.  ok is FALSE when the stream ends first (::Load throws).     *)
(***************************************************************************)
\* Mutant: a stream that ends early is not an error; the records it has are
\* loaded and the other columns keep their values.
LoadAvailable(docCount, input, output) ==
    LET n == IF input.open
             THEN (IF input.pos + docCount <= Len(input.content)
                   THEN docCount ELSE Len(input.content) - input.pos)
             ELSE 0
    IN  [ok |-> TRUE,
         input |-> [input EXCEPT !.pos = @ + n],
         output |-> [dim \in 1..Len(output) |->
                       [i \in 1..Len(output[dim]) |->
                           IF i <= n THEN input.content[input.pos + i][dim]
                           ELSE output[dim][i]]]]

Load(docCount, input, output) ==
    IF input.open /\ input.pos + docCount <= Len(input.content)
    THEN [ok |-> TRUE,
          input |-> [input EXCEPT !.pos = @ + docCount],
          output |-> [dim \in 1..Len(output) |->
                        [i \in 1..Len(output[dim]) |->
                            IF i <= docCount THEN input.content[input.pos + i][dim]
                            ELSE output[dim][i]]]]
    ELSE [ok |-> FALSE, input |-> input, output |-> output]

ZeroMatrix(approxDimension, docCount) ==
    [dim \in 1..approxDimension |-> [i \in 1..docCount |-> 0]]

\* LoadApprox: ok is FALSE when the file cannot be opened or ends early.
LoadApprox(st, plotLineIndex, docCount) ==
    LET s1 == GetApproxFileName(st, plotLineIndex)
        fileName == ApproxFileName(s1, plotLineIndex)
    IN  IF fileName \in DOMAIN s1.files
        THEN LET r == Load(docCount, OpenStream(s1.files, fileName),
                           ZeroMatrix(ApproxDimension, docCount))
             IN  [ok |-> r.ok,
                  st |-> IF r.ok
                         THEN [s1 EXCEPT !.trace = Append(@, Event("load", plotLineIndex, 0))]
                         ELSE s1,
                  result |-> r.output]
        ELSE [ok |-> FALSE, st |-> s1, result |-> <<>>]

\* Mutant: the file removed is that of the next slot.
DeleteApproxNext(st, plotLineIndex) ==
    LET s1 == GetApproxFileName(st, plotLineIndex + 1)
    IN  [s1 EXCEPT !.files = RemoveFile(@, ApproxFileName(s1, plotLineIndex + 1)),
                   !.trace = Append(@, Event("delete", plotLineIndex + 1, 0))]

DeleteApprox(st, plotLineIndex) ==
    LET s1 == GetApproxFileName(st, plotLineIndex)
    IN  [s1 EXCEPT !.files = RemoveFile(@, ApproxFileName(s1, plotLineIndex)),
                   !.trace = Append(@, Event("delete", plotLineIndex, 0))]

(***************************************************************************)
(* The prediction buffers.                                                 *)
(***************************************************************************)
\* GetBaseline: one row per dimension, or empty when the chunk has none.
GetBaseline(c) ==
    IF c \in baselineChunks
    THEN [dim \in 1..ApproxDimension |->
            [i \in 1..GetObjectCount(c) |-> BaselineOf(DocsOf(c)[i], dim)]]
    ELSE <<>>

RECURSIVE GetDocCount(_)
GetDocCount(datasetParts) ==
    IF datasetParts = <<>> THEN 0
    ELSE GetObjectCount(Head(datasetParts)) + GetDocCount(Tail(datasetParts))

RECURSIVE BaselineRow(_, _)
BaselineRow(datasetParts, approxIdx) ==
    IF datasetParts = <<>> THEN <<>>
    ELSE GetBaseline(Head(datasetParts))[approxIdx] \o BaselineRow(Tail(datasetParts), approxIdx)

\* InitApproxBuffer: ok is FALSE at the CB_ENSURE on inconsistent baselines.
InitApproxBuffer(approxDimension, datasetParts, initBaselineIfAvailable) ==
    IF datasetParts = <<>>
    THEN [ok |-> TRUE, approxMatrix |-> [dim \in 1..approxDimension |-> <<>>]]
    ELSE LET hasBaseline == initBaselineIfAvailable /\ GetBaseline(datasetParts[1]) # <<>>
             consistent == ~initBaselineIfAvailable
                           \/ \A p \in 2..Len(datasetParts) :
                                 (GetBaseline(datasetParts[p]) # <<>>) = hasBaseline
             docCount == GetDocCount(datasetParts)
         IN  [ok |-> consistent,
              approxMatrix |->
                 [approxIdx \in 1..approxDimension |->
                     IF hasBaseline /\ consistent
                     THEN BaselineRow(datasetParts, approxIdx)
                     ELSE [i \in 1..docCount |-> 0]]]

\* Append: (*dst)[dim][dstStartDoc + i] += approx[dim][i].
AppendApprox(approx, dst, dstStartDoc) ==
    LET docCount == Len(approx[1])
    IN  [dim \in 1..Len(dst) |->
            [i \in 1..Len(dst[dim]) |->
                IF dim <= Len(approx) /\ i > dstStartDoc /\ i <= dstStartDoc + docCount
                THEN dst[dim][i] + approx[dim][i - dstStartDoc]
                ELSE dst[dim][i]]]

\* The metric's evaluation ComputeAdditiveMetric merges for one chunk.
EvalAdditive(metric, approx, target, weights, queriesInfo) ==
    IF GetErrorType(metric) = "PerObjectError"
    THEN EvalPerObject(metric, approx, target, weights, 0, Len(target))
    ELSE EvalQuerywise(metric, approx, target, weights, queriesInfo, 0, Len(queriesInfo))

\* Mutant: the chunk's result overwrites the accumulator instead of merging.
ComputeAdditiveMetricAssign(plots, approx, target, weights, queriesInfo, plotLineIndex) ==
    [metricId \in 1..Len(plots) |->
        [plots[metricId] EXCEPT ![plotLineIndex + 1] =
            EvalAdditive(AdditiveMetrics[metricId], approx, target, weights, queriesInfo)]]

\* ComputeAdditiveMetric: the additive plots after the call.
ComputeAdditiveMetric(plots, approx, target, weights, queriesInfo, plotLineIndex) ==
    [metricId \in 1..Len(plots) |->
        [plots[metricId] EXCEPT ![plotLineIndex + 1] =
            HolderAdd(@, EvalAdditive(AdditiveMetrics[metricId], approx, target, weights, queriesInfo))]]

(***************************************************************************)
(* ProceedDataSet.  acc = [plots, st, saved] is what the loop updates:     *)
(* the additive plots, the snapshot store (and the record of the matrices  *)
(* saved).                                                                 *)
(***************************************************************************)
\* Mutant: the loop starts from the first checkpoint's tree also at slot 0.
ProceedBeginAtCheckpoint(beginIterationIndex) == It(beginIterationIndex)

\* The tree index the loop starts from.
ProceedBegin(beginIterationIndex) ==
    IF beginIterationIndex = 0 THEN 0 ELSE It(beginIterationIndex)

\* Mutant: every checkpoint is both merged into the additive plots and
\* saved, whatever isAdditiveMetrics.
RECURSIVE ProceedLoopBoth(_, _, _, _, _, _, _)
ProceedLoopBoth(c, iterationIndex, endIterationIndex, begin, cur, isAdditiveMetrics, acc) ==
    IF iterationIndex >= endIterationIndex THEN acc
    ELSE LET end == It(iterationIndex) + 1
             next == ApplyModelMulti(c, begin, end)
             cur2 == AppendApprox(next, cur, 0)
             acc2 == [acc EXCEPT !.plots =
                             ComputeAdditiveMetric(@, cur2, GetTarget(c), GetWeights(c),
                                                   QueriesOf(c), iterationIndex),
                                 !.st = SaveApproxToFile(@, iterationIndex, cur2)]
         IN  ProceedLoopBoth(c, iterationIndex + 1, endIterationIndex, end, cur2,
                             isAdditiveMetrics, acc2)

RECURSIVE ProceedLoop(_, _, _, _, _, _, _)
ProceedLoop(c, iterationIndex, endIterationIndex, begin, cur, isAdditiveMetrics, acc) ==
    IF iterationIndex >= endIterationIndex THEN acc
    ELSE LET end == It(iterationIndex) + 1
             next == ApplyModelMulti(c, begin, end)
             cur2 == AppendApprox(next, cur, 0)
             acc2 == IF isAdditiveMetrics
                     THEN [acc EXCEPT !.plots =
                             ComputeAdditiveMetric(@, cur2, GetTarget(c), GetWeights(c),
                                                   QueriesOf(c), iterationIndex)]
                     ELSE [acc EXCEPT !.st = SaveApproxToFile(@, iterationIndex, cur2),
                                      !.saved[iterationIndex + 1] = Append(@, cur2)]
         IN  ProceedLoop(c, iterationIndex + 1, endIterationIndex, end, cur2,
                         isAdditiveMetrics, acc2)

\* ok is FALSE when the resume read throws; input is the resume stream after it.
ProceedDataSet(c, beginIterationIndex, endIterationIndex, isAdditiveMetrics) ==
    LET docCount == GetObjectCount(c)
        init == InitApproxBuffer(ApproxDimension, <<c>>, beginIterationIndex = 0).approxMatrix
        resumed == IF beginIterationIndex = 0
                   THEN [ok |-> TRUE, input |-> LastApproxes, output |-> init]
                   ELSE Load(docCount, LastApproxes, init)
        acc0 == [plots |-> AdditiveMetricPlots, st |-> Store, saved |-> saved]
    IN  IF resumed.ok
        THEN [ok |-> TRUE, input |-> resumed.input,
              acc |-> ProceedLoop(c, beginIterationIndex, endIterationIndex,
                                  ProceedBegin(beginIterationIndex), resumed.output,
                                  isAdditiveMetrics, acc0)]
        ELSE [ok |-> FALSE, input |-> resumed.input, acc |-> acc0]

\* Mutant: the window is not cut to its size.
MinSecond(a, b) == b

Min(a, b) == IF a < b THEN a ELSE b

\* plot.h: ProcessedIterationsCount == Iterations.size().
AreAllIterationsProcessed(count) == count = Len(Iterations)

(***************************************************************************)
(* ComputeNonAdditiveMetrics(begin, end).  acc = [ok, st, plots]; acc.ok   *)
(* turns FALSE when LoadApprox throws, and the loop stops there.           *)
(***************************************************************************)
EvalSlot(plots, approx, idx) ==
    [metricId \in 1..Len(plots) |->
        [plots[metricId] EXCEPT ![idx + 1] =
            EvalNonAdditive(NonAdditiveMetrics[metricId], approx,
                            NonAdditiveMetricsData.Target, NonAdditiveMetricsData.Weights,
                            Len(NonAdditiveMetricsData.Target))]]

EvalEvents(idx) == [metricId \in 1..Len(NonAdditiveMetrics) |-> Event("eval", idx, metricId - 1)]

\* Mutant: the snapshot just evaluated is deleted, not the previous one.
DeletePreviousCurrent(acc, idx) == [acc EXCEPT !.st = DeleteApprox(@, idx)]

\* Mutant: the first snapshot is never deleted.
DeletePreviousButFirst(acc, idx) ==
    IF idx > 1 THEN [acc EXCEPT !.st = DeleteApprox(@, idx - 1)] ELSE acc

\* Mutant: no snapshot is deleted in the loop.
DeletePreviousNever(acc, idx) == acc

\* if (idx != 0) DeleteApprox(idx - 1).
DeletePrevious(acc, idx) ==
    IF idx # 0 THEN [acc EXCEPT !.st = DeleteApprox(@, idx - 1)] ELSE acc

RECURSIVE ComputeNonAdditiveMetricsLoop(_, _, _)
ComputeNonAdditiveMetricsLoop(idx, end, acc) ==
    IF idx >= end \/ ~acc.ok THEN acc
    ELSE LET loaded == LoadApprox(acc.st, idx, Len(NonAdditiveMetricsData.Target))
         IN  IF ~loaded.ok
             THEN [acc EXCEPT !.ok = FALSE, !.st = loaded.st]
             ELSE ComputeNonAdditiveMetricsLoop(idx + 1, end,
                    DeletePrevious(
                      [ok |-> TRUE,
                       st |-> [loaded.st EXCEPT !.trace = @ \o EvalEvents(idx)],
                       plots |-> EvalSlot(acc.plots, loaded.result, idx)],
                      idx))

\* Mutant: a resumed window is evaluated from its second slot on.
ComputeNonAdditiveMetricsSkipBoundary(begin, end) ==
    ComputeNonAdditiveMetricsLoop(IF begin = 0 THEN 0 ELSE begin + 1, end,
        [ok |-> TRUE, st |-> Store, plots |-> NonAdditiveMetricPlots])

ComputeNonAdditiveMetrics(begin, end) ==
    ComputeNonAdditiveMetricsLoop(begin, end,
        [ok |-> TRUE, st |-> Store, plots |-> NonAdditiveMetricPlots])

(***************************************************************************)
(* Initial states: the constructor's arguments and the environment.        *)
(***************************************************************************)
MetricKinds == BOOLEAN \X ErrorTypes

\* The metric lists of at most MaxMetrics metrics; param is the position.
MetricLists ==
    UNION {{[i \in 1..n |-> MetricOf(kinds[i][1], kinds[i][2], i - 1)] :
               kinds \in [1..n -> MetricKinds]} : n \in 0..MaxMetrics}

\* The mix of metrics the runs over every checkpoint plan are made with:
\* additive and non-additive metrics alternating, of every accepted kind.
RunMetricLists ==
    { << MetricOf(TRUE, "QuerywiseError", 0), MetricOf(FALSE, "PerObjectError", 1),
         MetricOf(TRUE, "PerObjectError", 2), MetricOf(FALSE, "PerObjectError", 3) >> }

\* Every valid (first, last, step) and window with that mix, and every
\* metric list with the plan first = 0, last = 2, step = 1, window 1.
ArgValues ==
    {a \in [first : FirstValues, last : 1..MaxLast, step : 1..MaxStep,
            processIterationStep : 1..MaxWindow, metrics : RunMetricLists] :
        EnsureCorrectParams(a.first, a.last, a.step)}
    \cup [first : {0}, last : {2}, step : {1}, processIterationStep : {1},
          metrics : MetricLists]

InitWith(argValues, baselineValues, dirValues) ==
    /\ pc = "new"
    /\ args \in argValues
    /\ baselineChunks \in baselineValues
    /\ tmpDirExists \in dirValues
    /\ First = 0 /\ Last = 0 /\ Step = 0
    /\ Iterations = <<>>
    /\ AdditiveMetrics = <<>> /\ AdditiveMetricsIndices = <<>>
    /\ NonAdditiveMetrics = <<>> /\ NonAdditiveMetricsIndices = <<>>
    /\ AdditiveMetricPlots = <<>> /\ NonAdditiveMetricPlots = <<>>
    /\ ProcessedIterationsCount = 0 /\ ProcessedIterationsStep = 0
    /\ NonAdditiveMetricsData = [Target |-> <<>>, Weights |-> <<>>, ApproxFiles |-> <<>>]
    /\ LastApproxes = NoStream
    /\ DeleteTmpDirOnExitFlag = FALSE
    /\ files = <<>>
    /\ guidCount = 0
    /\ additiveFed = [c \in Chunks |-> 0]
    /\ windowFeeds = <<>> /\ firstFeeds = <<>>
    /\ protocol = TRUE
    /\ trace = <<>>
    /\ saved = <<>>
    /\ logger = NoLogger

\* The first chunk carries a baseline, the second none; TmpDir does not exist.
Init == InitWith(ArgValues, {{1}}, {FALSE})

(***************************************************************************)
(* TMetricsPlotCalcer::TMetricsPlotCalcer.  When CB_ENSURE throws, no      *)
(* object exists: every field keeps its initial value.                     *)
(***************************************************************************)
Construct ==
    /\ pc = "new"
    /\ LET cls == ClassifyMetrics(args.metrics)
           its == BuildIterations(args.first, args.last, args.step)
       IN  IF EnsureCorrectParams(args.first, args.last, args.step) /\ cls.ok
           THEN /\ pc' = "ready"
                /\ First' = args.first /\ Last' = args.last /\ Step' = args.step
                /\ ProcessedIterationsCount' = 0
                /\ ProcessedIterationsStep' = args.processIterationStep
                /\ Iterations' = its
                /\ AdditiveMetrics' = cls.AdditiveMetrics
                /\ AdditiveMetricsIndices' = cls.AdditiveMetricsIndices
                /\ NonAdditiveMetrics' = cls.NonAdditiveMetrics
                /\ NonAdditiveMetricsIndices' = cls.NonAdditiveMetricsIndices
                /\ AdditiveMetricPlots' = NewPlots(Len(cls.AdditiveMetrics), Len(its))
                /\ NonAdditiveMetricPlots' = NewPlots(Len(cls.NonAdditiveMetrics), Len(its))
                /\ saved' = [k \in 1..Len(its) |-> <<>>]
           ELSE /\ pc' = "rejected"
                /\ UNCHANGED <<First, Last, Step, ProcessedIterationsCount,
                               ProcessedIterationsStep, Iterations, AdditiveMetrics,
                               AdditiveMetricsIndices, NonAdditiveMetrics,
                               NonAdditiveMetricsIndices, AdditiveMetricPlots,
                               NonAdditiveMetricPlots, saved>>
    /\ UNCHANGED <<args, baselineChunks, NonAdditiveMetricsData, LastApproxes,
                   DeleteTmpDirOnExitFlag, tmpDirExists, files, guidCount,
                   additiveFed, windowFeeds, firstFeeds, protocol, trace, logger>>

(***************************************************************************)
(* ProceedDataSetForAdditiveMetrics(chunk c).                              *)
(***************************************************************************)
ProceedDataSetForAdditiveMetrics(c) ==
    /\ pc = "ready"
    /\ AdditiveMetrics # <<>>
    /\ additiveFed[c] < MaxAdditiveFeeds
    /\ \E r \in {ProceedDataSet(c, 0, Len(Iterations), TRUE)} :
           /\ AdditiveMetricPlots' = r.acc.plots
           /\ NonAdditiveMetricsData' =
                 [NonAdditiveMetricsData EXCEPT !.ApproxFiles = r.acc.st.ApproxFiles]
           /\ files' = r.acc.st.files
           /\ tmpDirExists' = r.acc.st.tmpDirExists
           /\ DeleteTmpDirOnExitFlag' = r.acc.st.DeleteTmpDirOnExitFlag
           /\ guidCount' = r.acc.st.guidCount
           /\ trace' = r.acc.st.trace
           /\ saved' = r.acc.saved
           /\ LastApproxes' = r.input
    /\ additiveFed' = [additiveFed EXCEPT ![c] = @ + 1]
    /\ UNCHANGED <<pc, args, baselineChunks, First, Last, Step, Iterations,
                   AdditiveMetrics, AdditiveMetricsIndices, NonAdditiveMetrics,
                   NonAdditiveMetricsIndices, NonAdditiveMetricPlots,
                   ProcessedIterationsCount, ProcessedIterationsStep,
                   windowFeeds, firstFeeds, protocol, logger>>

\* Mutant: the targets and weights are appended in every window.
AppendWorkingSetAlways(c) ==
    [NonAdditiveMetricsData EXCEPT
        !.Target = @ \o GetTarget(c), !.Weights = @ \o GetWeights(c)]

\* The working set after the first lines of ProceedDataSetForNonAdditiveMetrics.
AppendWorkingSet(c) ==
    IF ProcessedIterationsCount = 0
    THEN [NonAdditiveMetricsData EXCEPT
            !.Target = @ \o GetTarget(c), !.Weights = @ \o GetWeights(c)]
    ELSE NonAdditiveMetricsData

(***************************************************************************)
(* ProceedDataSetForNonAdditiveMetrics(chunk c).  The callers feed chunks  *)
(* only when there are non-additive metrics and while some checkpoint is   *)
(* unprocessed.  The chunks fed to the first window are the dataset, each  *)
(* chunk once; a later window may be fed any chunks in any order, and the  *)
(* run is followed up to the end of the first window fed otherwise.        *)
(***************************************************************************)
ProceedDataSetForNonAdditiveMetrics(c) ==
    /\ pc = "ready"
    /\ NonAdditiveMetrics # <<>>
    /\ ~AreAllIterationsProcessed(ProcessedIterationsCount)
    /\ Len(windowFeeds) < MaxFeeds
    /\ protocol
    /\ ProcessedIterationsCount = 0 => \A i \in 1..Len(windowFeeds) : windowFeeds[i] # c
    /\ LET begin == ProcessedIterationsCount
           end == Min(ProcessedIterationsCount + ProcessedIterationsStep, Len(Iterations))
           data == AppendWorkingSet(c)
       IN  \E r \in {ProceedDataSet(c, begin, end, FALSE)} :
           /\ pc' = IF r.ok THEN "ready" ELSE "failed"
           /\ NonAdditiveMetricsData' = [data EXCEPT !.ApproxFiles = r.acc.st.ApproxFiles]
           /\ files' = r.acc.st.files
           /\ tmpDirExists' = r.acc.st.tmpDirExists
           /\ DeleteTmpDirOnExitFlag' = r.acc.st.DeleteTmpDirOnExitFlag
           /\ guidCount' = r.acc.st.guidCount
           /\ saved' = r.acc.saved
           /\ AdditiveMetricPlots' = r.acc.plots
           /\ LastApproxes' = r.input
           /\ trace' = IF begin # 0 /\ r.ok
                       THEN Append(r.acc.st.trace, Event("read", begin - 1, c))
                       ELSE r.acc.st.trace
    /\ windowFeeds' = Append(windowFeeds, c)
    /\ UNCHANGED <<args, baselineChunks, First, Last, Step, Iterations,
                   AdditiveMetrics, AdditiveMetricsIndices, NonAdditiveMetrics,
                   NonAdditiveMetricsIndices, NonAdditiveMetricPlots,
                   ProcessedIterationsCount, ProcessedIterationsStep, additiveFed,
                   firstFeeds, protocol, logger>>

(***************************************************************************)
(* FinishProceedDataSetForNonAdditiveMetrics, which the callers call while *)
(* some checkpoint is unprocessed.                                         *)
(***************************************************************************)
FinishProceedDataSetForNonAdditiveMetrics ==
    /\ pc = "ready"
    /\ NonAdditiveMetrics # <<>>
    /\ ~AreAllIterationsProcessed(ProcessedIterationsCount)
    /\ LET begin == ProcessedIterationsCount
           end == Min(ProcessedIterationsCount + ProcessedIterationsStep, Len(Iterations))
       IN  \E r \in {ComputeNonAdditiveMetrics(begin, end)} :
           \E last \in {IF AreAllIterationsProcessed(end)
                        THEN DeleteApprox(r.st, end - 1)
                        ELSE GetApproxFileName(r.st, end - 1)} :
           LET opened == ApproxFileName(last, end - 1) \in DOMAIN last.files
               ok == r.ok /\ (AreAllIterationsProcessed(end) \/ opened)
               st == IF r.ok THEN last ELSE r.st
           IN
           /\ pc' = IF ok THEN "ready" ELSE "failed"
           /\ NonAdditiveMetricPlots' = r.plots
           /\ ProcessedIterationsCount' = IF r.ok THEN end ELSE ProcessedIterationsCount
           /\ LastApproxes' = IF ok /\ ~AreAllIterationsProcessed(end)
                              THEN OpenStream(last.files, ApproxFileName(last, end - 1))
                              ELSE LastApproxes
           /\ trace' = st.trace
           /\ NonAdditiveMetricsData' = [NonAdditiveMetricsData EXCEPT !.ApproxFiles = st.ApproxFiles]
           /\ files' = st.files
           /\ tmpDirExists' = st.tmpDirExists
           /\ DeleteTmpDirOnExitFlag' = st.DeleteTmpDirOnExitFlag
           /\ guidCount' = st.guidCount
    /\ windowFeeds' = <<>>
    /\ firstFeeds' = IF ProcessedIterationsCount = 0 THEN windowFeeds ELSE firstFeeds
    /\ protocol' = IF ProcessedIterationsCount = 0
                   THEN protocol ELSE protocol /\ windowFeeds = firstFeeds
    /\ UNCHANGED <<args, baselineChunks, First, Last, Step, Iterations,
                   AdditiveMetrics, AdditiveMetricsIndices, NonAdditiveMetrics,
                   NonAdditiveMetricsIndices, AdditiveMetricPlots,
                   ProcessedIterationsStep, additiveFed, saved, logger>>

Next ==
    \/ Construct
    \/ \E c \in Chunks : ProceedDataSetForAdditiveMetrics(c)
    \/ \E c \in Chunks : ProceedDataSetForNonAdditiveMetrics(c)
    \/ FinishProceedDataSetForNonAdditiveMetrics

Spec == Init /\ [][Next]_vars

(***************************************************************************)
(* GetMetricsScore: the assignments of the two loops, in their order.      *)
(***************************************************************************)
\* Mutant: the row is the group-local metricId, not the original slot.
RECURSIVE AssignScoresByMetricId(_, _, _, _, _, _)
AssignScoresByMetricId(metricsScore, metrics, indices, plots, i, metricId) ==
    IF metricId >= Len(metrics) THEN metricsScore
    ELSE AssignScoresByMetricId(
            [metricsScore EXCEPT ![metricId + 1][i + 1] =
                GetFinalError(metrics[metricId + 1], plots[metricId + 1][i + 1])],
            metrics, indices, plots, i, metricId + 1)

RECURSIVE AssignScores(_, _, _, _, _, _)
AssignScores(metricsScore, metrics, indices, plots, i, metricId) ==
    IF metricId >= Len(metrics) THEN metricsScore
    ELSE AssignScores(
            [metricsScore EXCEPT ![indices[metricId + 1] + 1][i + 1] =
                GetFinalError(metrics[metricId + 1], plots[metricId + 1][i + 1])],
            metrics, indices, plots, i, metricId + 1)

RECURSIVE ScoreLoop(_, _)
ScoreLoop(metricsScore, i) ==
    IF i >= Len(Iterations) THEN metricsScore
    ELSE ScoreLoop(
            AssignScores(
                AssignScores(metricsScore, AdditiveMetrics, AdditiveMetricsIndices,
                             AdditiveMetricPlots, i, 0),
                NonAdditiveMetrics, NonAdditiveMetricsIndices, NonAdditiveMetricPlots, i, 0),
            i + 1)

GetMetricsScore ==
    ScoreLoop([s \in 1..(Len(AdditiveMetrics) + Len(NonAdditiveMetrics)) |->
                  [i \in 1..Len(Iterations) |-> 0]], 0)

(***************************************************************************)
(* Reference values the claims compare the program's state with.           *)
(***************************************************************************)
Constructed == pc \in {"ready", "failed"}

SlotCount == Len(Iterations)

Slots == 0..(SlotCount - 1)

\* The chunks of the dataset in one order, and the dataset as a single chunk.
AllChunks == <<1, 2>>

\* The baseline of chunk c (zero if it has none) plus the delta of every
\* tree 0..lastTree, each applied on its own.
RECURSIVE PlusTrees(_, _, _)
PlusTrees(c, approx, lastTree) ==
    IF lastTree < 0 THEN approx
    ELSE LET below == PlusTrees(c, approx, lastTree - 1)
             delta == ApplyModelMulti(c, lastTree, lastTree + 1)
         IN  [dim \in 1..ApproxDimension |->
                [i \in 1..GetObjectCount(c) |-> below[dim][i] + delta[dim][i]]]

UninterruptedApprox(c, k) ==
    PlusTrees(c,
              [dim \in 1..ApproxDimension |->
                 [i \in 1..GetObjectCount(c) |->
                    IF c \in baselineChunks THEN BaselineOf(DocsOf(c)[i], dim) ELSE 0]],
              It(k))

\* A matrix as the records of a snapshot: one per document.
RecordsOf(approx) ==
    [i \in 1..Len(approx[1]) |-> [dim \in 1..Len(approx) |-> approx[dim][i]]]

RECURSIVE UninterruptedRecords(_, _)
UninterruptedRecords(feeds, k) ==
    IF feeds = <<>> THEN <<>>
    ELSE RecordsOf(UninterruptedApprox(Head(feeds), k)) \o UninterruptedRecords(Tail(feeds), k)

IsPrefix(a, b) == Len(a) <= Len(b) /\ SubSeq(b, 1, Len(a)) = a

\* The run so far follows the protocol: every finished window was fed the
\* chunks of the first window in their order, and so is the one in production.
InProtocol ==
    /\ pc = "ready"
    /\ protocol
    /\ ProcessedIterationsCount > 0 => IsPrefix(windowFeeds, firstFeeds)

SlotHasName(k) ==
    /\ k + 1 <= Len(NonAdditiveMetricsData.ApproxFiles)
    /\ NonAdditiveMetricsData.ApproxFiles[k + 1] # <<>>

SlotFileExists(k) ==
    /\ SlotHasName(k)
    /\ NonAdditiveMetricsData.ApproxFiles[k + 1] \in DOMAIN files

SlotFile(k) == files[NonAdditiveMetricsData.ApproxFiles[k + 1]]

\* The chunks whose records the file of slot k holds in a protocol run.
FeedsOfSlot(k) == IF k >= ProcessedIterationsCount THEN windowFeeds ELSE firstFeeds

(***************************************************************************)
(* C1.  In a protocol-following windowed run, the prediction persisted for *)
(* every checkpoint slot k equals the uninterrupted prediction: baseline   *)
(* plus the delta of every tree in [0, Iterations[k] + 1), each once; also *)
(* for the slots of a window resumed from the previous window's snapshot.  *)
(***************************************************************************)
C1_PersistedEqualsUninterrupted ==
    InProtocol =>
        \A k \in Slots :
            SlotFileExists(k) => SlotFile(k) = UninterruptedRecords(FeedsOfSlot(k), k)

(***************************************************************************)
(* C2.  For every valid (First, Last, Step) the checkpoint list built by   *)
(* the constructor is strictly increasing, starts at First, ends at        *)
(* Last - 1, every element but possibly the last is First + j * Step, and  *)
(* no later operation modifies the list.                                   *)
(***************************************************************************)
IterationsPlanned ==
    Constructed =>
        /\ Iterations # <<>>
        /\ \A i \in 1..(Len(Iterations) - 1) : Iterations[i] < Iterations[i + 1]
        /\ Iterations[1] = args.first
        /\ Iterations[Len(Iterations)] = args.last - 1
        /\ \A i \in 1..(Len(Iterations) - 1) : Iterations[i] = args.first + (i - 1) * args.step
        /\ Iterations[Len(Iterations)] <= args.first + (Len(Iterations) - 1) * args.step

C2_IterationsPlan ==
    /\ []IterationsPlanned
    /\ [][Constructed => Iterations' = Iterations]_vars

\* A run that produced and finished a window over a list whose last
\* checkpoint Last - 1 is off the step grid.
C2_Witness ==
    /\ pc = "ready"
    /\ ProcessedIterationsCount > 0
    /\ Len(Iterations) >= 2
    /\ (Iterations[Len(Iterations)] - args.first) % args.step # 0

(***************************************************************************)
(* The dataset as a single chunk: the chunks' documents, targets, weights  *)
(* and queries concatenated, and its uninterrupted prediction.             *)
(***************************************************************************)
RECURSIVE ConcatOver(_, _)
ConcatOver(chunks, row) ==
    IF chunks = <<>> THEN <<>> ELSE row[Head(chunks)] \o ConcatOver(Tail(chunks), row)

WholeTarget == ConcatOver(AllChunks, [c \in Chunks |-> GetTarget(c)])

WholeWeights == ConcatOver(AllChunks, [c \in Chunks |-> GetWeights(c)])

RECURSIVE WholeQueriesFrom(_, _)
WholeQueriesFrom(chunks, offset) ==
    IF chunks = <<>> THEN <<>>
    ELSE [q \in 1..Len(QueriesOf(Head(chunks))) |->
            <<QueriesOf(Head(chunks))[q][1] + offset, QueriesOf(Head(chunks))[q][2] + offset>>]
         \o WholeQueriesFrom(Tail(chunks), offset + GetObjectCount(Head(chunks)))

WholeQueries == WholeQueriesFrom(AllChunks, 0)

WholeApprox(k) ==
    [dim \in 1..ApproxDimension |->
        ConcatOver(AllChunks, [c \in Chunks |-> UninterruptedApprox(c, k)[dim]])]

\* The merge of count copies of a chunk's contribution.
HolderTimes(count, holder) == <<count * holder[1], count * holder[2]>>

RECURSIVE MergedContributions(_, _, _)
MergedContributions(chunks, metric, k) ==
    IF chunks = <<>> THEN EmptyHolder
    ELSE LET c == Head(chunks)
         IN  HolderAdd(
                HolderTimes(additiveFed[c],
                            EvalAdditive(metric, UninterruptedApprox(c, k), GetTarget(c),
                                         GetWeights(c), QueriesOf(c))),
                MergedContributions(Tail(chunks), metric, k))

(***************************************************************************)
(* C3.  Whatever the order in which the chunks are passed to               *)
(* ProceedDataSetForAdditiveMetrics, the accumulator of every (additive    *)
(* metric, checkpoint slot) is the merge of one contribution per call, and *)
(* once every chunk has been passed exactly once it equals the evaluation  *)
(* of the dataset as a single chunk.                                       *)
(***************************************************************************)
C3_AdditiveChunkOrder ==
    Constructed =>
        \A metricId \in 1..Len(AdditiveMetrics) : \A k \in Slots :
            /\ AdditiveMetricPlots[metricId][k + 1]
                 = MergedContributions(AllChunks, AdditiveMetrics[metricId], k)
            /\ (\A c \in Chunks : additiveFed[c] = 1) =>
                 AdditiveMetricPlots[metricId][k + 1]
                   = EvalAdditive(AdditiveMetrics[metricId], WholeApprox(k), WholeTarget,
                                  WholeWeights, WholeQueries)

\* Every chunk was passed once to a calcer with a per-object and a
\* querywise additive metric over at least two checkpoints.
C3_Witness ==
    /\ Constructed
    /\ \A c \in Chunks : additiveFed[c] = 1
    /\ Len(Iterations) >= 2
    /\ \E m \in 1..Len(AdditiveMetrics) : GetErrorType(AdditiveMetrics[m]) = "QuerywiseError"
    /\ \E m \in 1..Len(AdditiveMetrics) : GetErrorType(AdditiveMetrics[m]) = "PerObjectError"
    /\ \A m \in 1..Len(AdditiveMetrics) : \A k \in Slots : AdditiveMetricPlots[m][k + 1][1] > 0

(***************************************************************************)
(* C4.  Construction fails if and only if some supplied metric is          *)
(* non-additive with an error type other than PerObject; additive metrics  *)
(* of any error type and non-additive PerObject metrics are accepted; on   *)
(* rejection no calcer exists (no field was set).                          *)
(***************************************************************************)
HasUnsupportedMetric ==
    \E i \in 1..Len(args.metrics) :
        ~args.metrics[i].additive /\ args.metrics[i].errorType # "PerObjectError"

C4_RejectionIffUnsupported ==
    pc # "new" =>
        /\ (pc = "rejected") <=> HasUnsupportedMetric
        /\ pc = "rejected" =>
              /\ Iterations = <<>>
              /\ AdditiveMetrics = <<>> /\ NonAdditiveMetrics = <<>>
              /\ AdditiveMetricsIndices = <<>> /\ NonAdditiveMetricsIndices = <<>>
              /\ AdditiveMetricPlots = <<>> /\ NonAdditiveMetricPlots = <<>>
        /\ pc # "rejected" =>
              Len(AdditiveMetrics) + Len(NonAdditiveMetrics) = Len(args.metrics)

\* Rejected: an accepted additive querywise metric, then a non-additive
\* pairwise one.
C4_Witness ==
    /\ pc = "rejected"
    /\ Len(args.metrics) = 2
    /\ args.metrics[1].additive /\ args.metrics[1].errorType = "QuerywiseError"
    /\ ~args.metrics[2].additive /\ args.metrics[2].errorType = "PairwiseError"

(***************************************************************************)
(* C5.  GetMetricsScore returns one row per supplied metric and one column *)
(* per checkpoint; the recorded slot indices of the two groups partition   *)
(* the positions of the supplied metrics; and row s holds the finalized    *)
(* accumulators of the metric supplied at position s.                      *)
(***************************************************************************)
IndexSet(indices) == {indices[i] : i \in 1..Len(indices)}

\* The number of metrics supplied before position s that are in its group.
RankInGroup(s) ==
    Cardinality({j \in 0..(s - 1) : args.metrics[j + 1].additive = args.metrics[s + 1].additive})

\* The accumulator of the metric supplied at position s, at slot k.
AccumulatorOf(s, k) ==
    IF args.metrics[s + 1].additive
    THEN AdditiveMetricPlots[RankInGroup(s) + 1][k + 1]
    ELSE NonAdditiveMetricPlots[RankInGroup(s) + 1][k + 1]

GroupMetricOf(s) ==
    IF args.metrics[s + 1].additive
    THEN AdditiveMetrics[RankInGroup(s) + 1]
    ELSE NonAdditiveMetrics[RankInGroup(s) + 1]

C5_ScoreMatrixBySlot ==
    Constructed =>
        LET metricsScore == GetMetricsScore
            count == Len(args.metrics)
        IN  /\ Len(metricsScore) = count
            /\ \A s \in 1..count : Len(metricsScore[s]) = Len(Iterations)
            /\ IndexSet(AdditiveMetricsIndices) \cup IndexSet(NonAdditiveMetricsIndices)
                 = 0..(count - 1)
            /\ IndexSet(AdditiveMetricsIndices) \cap IndexSet(NonAdditiveMetricsIndices) = {}
            /\ Cardinality(IndexSet(AdditiveMetricsIndices)) = Len(AdditiveMetricsIndices)
            /\ Cardinality(IndexSet(NonAdditiveMetricsIndices)) = Len(NonAdditiveMetricsIndices)
            /\ \A s \in 0..(count - 1) :
                  /\ GroupMetricOf(s) = args.metrics[s + 1]
                  /\ \A k \in Slots :
                        metricsScore[s + 1][k + 1]
                          = GetFinalError(args.metrics[s + 1], AccumulatorOf(s, k))

\* A non-additive metric supplied before an additive one, both with
\* non-zero scores at the last checkpoint.
C5_Witness ==
    /\ Constructed
    /\ Len(args.metrics) >= 2
    /\ ~args.metrics[1].additive /\ args.metrics[2].additive
    /\ GetMetricsScore[1][Len(Iterations)] > 0
    /\ GetMetricsScore[2][Len(Iterations)] > 0

(***************************************************************************)
(* C6.  Round trip: the matrices handed to SaveApproxToFile for a          *)
(* checkpoint, appended chunk after chunk to its fresh snapshot, are       *)
(* returned by LoadApprox as one matrix, element for element: the chunks'  *)
(* matrices concatenated along the document axis.                          *)
(***************************************************************************)
RECURSIVE ConcatDocuments(_, _)
ConcatDocuments(matrices, dim) ==
    IF matrices = <<>> THEN <<>>
    ELSE Head(matrices)[dim] \o ConcatDocuments(Tail(matrices), dim)

SavedMatrix(k) == [dim \in 1..ApproxDimension |-> ConcatDocuments(saved[k + 1], dim)]

WorkingSetSize == Len(NonAdditiveMetricsData.Target)

C6_SaveLoadRoundTrip ==
    pc = "ready" =>
        \A k \in Slots :
            (SlotFileExists(k) /\ Len(SlotFile(k)) = WorkingSetSize) =>
                /\ LoadApprox(Store, k, WorkingSetSize).ok
                /\ LoadApprox(Store, k, WorkingSetSize).result = SavedMatrix(k)

\* A snapshot of two chunks appended in turn, three documents in all, whose
\* rows differ between the dimensions.
C6_Witness ==
    /\ pc = "ready"
    /\ \E k \in Slots :
          /\ SlotFileExists(k)
          /\ Len(saved[k + 1]) = 2
          /\ Len(SlotFile(k)) = WorkingSetSize
          /\ WorkingSetSize = 3
          /\ LoadApprox(Store, k, WorkingSetSize).result[1]
               # LoadApprox(Store, k, WorkingSetSize).result[ApproxDimension]

(***************************************************************************)
(* The history of the snapshot store.                                      *)
(***************************************************************************)
TraceIndex == 1..Len(trace)

Before(p, op, slot, who) == \E q \in 1..(p - 1) : trace[q] = Event(op, slot, who)

EvaluatedBefore(p, k) ==
    \A metricId \in 1..Len(NonAdditiveMetrics) : Before(p, "eval", k, metricId - 1)

\* Slot s is the last slot of a non-final window: its snapshot seeds the
\* window that begins at slot s + 1.
IsSeed(s) == s + 1 < SlotCount /\ (s + 1) % ProcessedIterationsStep = 0

SeededWindow(s) == (s + 1)..(Min(s + 1 + ProcessedIterationsStep, SlotCount) - 1)

\* The chunks that read their records of slot s from the resume stream at
\* the positions from..to of the history, in the order of their reads.
RECURSIVE ReadersOf(_, _, _)
ReadersOf(s, from, to) ==
    IF from > to THEN <<>>
    ELSE IF trace[to].op = "read" /\ trace[to].slot = s
         THEN Append(ReadersOf(s, from, to - 1), trace[to].who)
         ELSE ReadersOf(s, from, to - 1)

IsDeletion(p) == trace[p].op = "delete"

\* C7 as stated: the snapshot that seeds a window is deleted only after the
\* non-additive evaluation of every slot of the window it seeds has
\* finished.
C7_SeedKeptUntilWindowConsumed ==
    Constructed /\ protocol =>
        \A p \in TraceIndex :
            IsDeletion(p) /\ IsSeed(trace[p].slot) =>
                \A k \in SeededWindow(trace[p].slot) : EvaluatedBefore(p, k)

\* C7: the snapshot that seeds a window is deleted only after every chunk of
\* the window it seeds has read its records from the resume stream, so that
\* the window is fully produced, and after the window's first slot has been
\* loaded and evaluated; no chunk reads the seed after its deletion.
C7_SeedKeptUntilWindowProduced ==
    Constructed /\ protocol =>
        \A p \in TraceIndex :
            IsDeletion(p) /\ IsSeed(trace[p].slot) =>
                /\ ReadersOf(trace[p].slot, 1, p - 1) = firstFeeds
                /\ ReadersOf(trace[p].slot, p + 1, Len(trace)) = <<>>
                /\ Before(p, "load", trace[p].slot + 1, 0)
                /\ EvaluatedBefore(p, trace[p].slot + 1)

\* A seed was deleted and a later slot of the window it seeds was loaded
\* after the deletion.
C7_Witness ==
    /\ pc = "ready"
    /\ protocol
    /\ Len(firstFeeds) = 2
    /\ \E p \in TraceIndex :
          /\ IsDeletion(p)
          /\ IsSeed(trace[p].slot)
          /\ \E q \in (p + 1)..Len(trace) : trace[q] = Event("load", trace[p].slot + 2, 0)

\* C8: in a run that follows the protocol the file of slot k is removed only
\* after the evaluator has loaded slot k and, when slot k is the last slot
\* of a non-final window, only after every chunk of the next window has
\* read its records from the resume stream; a snapshot file that is gone
\* was removed by a recorded deletion, and the seed of the window in
\* production is on disk.
C8_DeleteAfterConsumers ==
    /\ Constructed /\ protocol =>
          \A p \in TraceIndex :
              IsDeletion(p) =>
                  /\ Before(p, "load", trace[p].slot, 0)
                  /\ IsSeed(trace[p].slot) =>
                        ReadersOf(trace[p].slot, 1, p - 1) = firstFeeds
    /\ InProtocol =>
          /\ \A k \in Slots :
                SlotHasName(k) /\ ~SlotFileExists(k) =>
                    \E p \in TraceIndex : trace[p] = Event("delete", k, 0)
          /\ 0 < ProcessedIterationsCount /\ ProcessedIterationsCount < SlotCount =>
                SlotFileExists(ProcessedIterationsCount - 1)

\* A complete run over two chunks and more than one window: every slot was
\* deleted, one of them a seed.
C8_Witness ==
    /\ InProtocol
    /\ ProcessedIterationsCount = SlotCount
    /\ Len(firstFeeds) = 2
    /\ \A k \in Slots : \E p \in TraceIndex : trace[p] = Event("delete", k, 0)
    /\ \E k \in Slots : IsSeed(k)

\* C9: a finish call that makes all iterations processed leaves no snapshot
\* file; a finish call that does not complete the run leaves exactly one
\* snapshot file, that of the window's last slot, with LastApproxes a
\* reader opened on it.
C9_FinishLeavesSeedOnly ==
    [][pc = "ready" /\ pc' = "ready" /\ ProcessedIterationsCount' # ProcessedIterationsCount =>
          IF ProcessedIterationsCount' = Len(Iterations)
          THEN DOMAIN files' = {}
          ELSE /\ Len(NonAdditiveMetricsData'.ApproxFiles) >= ProcessedIterationsCount'
               /\ DOMAIN files' = {NonAdditiveMetricsData'.ApproxFiles[ProcessedIterationsCount']}
               /\ LastApproxes' =
                     OpenStream(files', NonAdditiveMetricsData'.ApproxFiles[ProcessedIterationsCount'])]_vars

\* The run is complete after more than one window of two slots, every slot
\* had its file, and none is left.
C9_Witness ==
    /\ pc = "ready"
    /\ ProcessedIterationsCount = SlotCount
    /\ ProcessedIterationsStep = 2
    /\ SlotCount > 2
    /\ guidCount = SlotCount
    /\ DOMAIN files = {}

IsLoad(e) == e.op = "load"

IsEval(e) == e.op = "eval"

\* One evaluation per non-additive metric for each of the slots 0..k-1, in
\* slot order.
RECURSIVE EvaluationsUpTo(_)
EvaluationsUpTo(k) ==
    IF k = 0 THEN <<>> ELSE EvaluationsUpTo(k - 1) \o EvalEvents(k - 1)

\* C10: the evaluator has loaded the slots below the cursor once each, in
\* increasing order, and no other; every (non-additive metric, slot)
\* accumulator below the cursor was set by exactly one evaluation, over the
\* full working set, and those at or above the cursor by none.
C10_EachSlotEvaluatedOnce ==
    pc = "ready" =>
        /\ SelectSeq(trace, IsLoad) =
              [i \in 1..ProcessedIterationsCount |-> Event("load", i - 1, 0)]
        /\ SelectSeq(trace, IsEval) = EvaluationsUpTo(ProcessedIterationsCount)
        /\ \A metricId \in 1..Len(NonAdditiveMetrics) : \A k \in Slots :
              IF k < ProcessedIterationsCount
              THEN NonAdditiveMetricPlots[metricId][k + 1][2] =
                      Len(NonAdditiveMetricsData.Target)
              ELSE NonAdditiveMetricPlots[metricId][k + 1] = EmptyHolder

\* A complete run of two windows, the first of two slots, over two chunks
\* and two non-additive metrics.
C10_Witness ==
    /\ pc = "ready"
    /\ protocol
    /\ ProcessedIterationsCount = SlotCount
    /\ SlotCount = 3
    /\ ProcessedIterationsStep = 2
    /\ Len(NonAdditiveMetrics) = 2
    /\ Len(firstFeeds) = 2
    /\ Len(NonAdditiveMetricsData.Target) = 3

(***************************************************************************)
(* Out-of-order discard: the file of a slot is removed from the scratch    *)
(* directory behind the calcer's back, at most once in a run.  A reader    *)
(* already opened on the file keeps its content.                           *)
(***************************************************************************)
IsDiscard(e) == e.op = "discard"

Discard(k) ==
    /\ pc = "ready"
    /\ protocol
    /\ SelectSeq(trace, IsDiscard) = <<>>
    /\ SlotFileExists(k)
    /\ files' = RemoveFile(files, NonAdditiveMetricsData.ApproxFiles[k + 1])
    /\ trace' = Append(trace, Event("discard", k, 0))
    /\ UNCHANGED <<pc, args, baselineChunks, First, Last, Step, Iterations,
                   AdditiveMetrics, AdditiveMetricsIndices, NonAdditiveMetrics,
                   NonAdditiveMetricsIndices, AdditiveMetricPlots, NonAdditiveMetricPlots,
                   ProcessedIterationsCount, ProcessedIterationsStep,
                   NonAdditiveMetricsData, LastApproxes, DeleteTmpDirOnExitFlag,
                   tmpDirExists, guidCount, additiveFed, windowFeeds, firstFeeds,
                   protocol, saved, logger>>

\* The runs of two or three checkpoints with step 1 from iteration 0 and the
\* mix of metrics.
DiscardArgValues ==
    {a \in ArgValues : /\ a.first = 0 /\ a.step = 1 /\ a.last \in {2, 3}
                       /\ a.metrics \in RunMetricLists}

InitDiscard == InitWith(DiscardArgValues, {{1}}, {FALSE})

NextDiscard ==
    \/ Next
    \/ \E k \in 0..(MaxLast - 1) : Discard(k)

SpecDiscard == InitDiscard /\ [][NextDiscard]_vars

\* C11: a reload of slot k that returns a matrix, by LoadApprox or by the
\* resume read, is made while the file of slot k exists: no removal of the
\* file, by DeleteApprox or out of order, comes before it.
C11_ReloadOfMissingSnapshotFails ==
    \A p \in TraceIndex :
        trace[p].op \in {"load", "read"} =>
            /\ ~Before(p, "discard", trace[p].slot, 0)
            /\ ~Before(p, "delete", trace[p].slot, 0)

(***************************************************************************)
(* The steps of the operations, told apart by what they change.            *)
(***************************************************************************)
IsAdditiveStep == additiveFed' # additiveFed

IsProduceStep == Len(windowFeeds') = Len(windowFeeds) + 1

\* The step appended one event of the given kind to the history.
AppendsEvent(op) == Len(trace') = Len(trace) + 1 /\ trace'[Len(trace')].op = op

IsDiscardStep == AppendsEvent("discard")

IsPartsStep == AppendsEvent("parts")

IsFinishStep ==
    /\ pc = "ready"
    /\ ~IsAdditiveStep
    /\ ~IsProduceStep
    /\ ~IsDiscardStep
    /\ ~IsPartsStep
    /\ vars' # vars

WindowEnd ==
    IF ProcessedIterationsCount + ProcessedIterationsStep <= Len(Iterations)
    THEN ProcessedIterationsCount + ProcessedIterationsStep
    ELSE Len(Iterations)

WindowSlots == ProcessedIterationsCount..(WindowEnd - 1)

\* The file of slot k holds a number of records other than the document
\* count of the working set.
CountMismatch(k) ==
    SlotFileExists(k) /\ Len(SlotFile(k)) # Len(NonAdditiveMetricsData.Target)

\* C12: a finish call over a window in which the file of some slot holds a
\* number of records other than the document count of the working set ends
\* in an error, with the cursor unchanged and no accumulator of that slot or
\* of a later one set; and no snapshot file ever holds more records than
\* the working set has documents.
C12_CountMismatchIsFatal ==
    /\ [](Constructed =>
            \A k \in Slots : SlotFileExists(k) =>
                Len(SlotFile(k)) <= Len(NonAdditiveMetricsData.Target))
    /\ [][IsFinishStep =>
            \A k \in WindowSlots :
                CountMismatch(k) =>
                    /\ pc' = "failed"
                    /\ ProcessedIterationsCount' = ProcessedIterationsCount
                    /\ \A j \in k..(SlotCount - 1) :
                          \A metricId \in 1..Len(NonAdditiveMetrics) :
                              NonAdditiveMetricPlots'[metricId][j + 1] = EmptyHolder]_vars

\* A finish call has failed on a resumed window whose snapshots hold fewer
\* records than the working set has documents.
C12_Witness ==
    /\ pc = "failed"
    /\ ProcessedIterationsCount > 0
    /\ \E k \in Slots :
          /\ k >= ProcessedIterationsCount
          /\ SlotFileExists(k)
          /\ Len(SlotFile(k)) > 0
          /\ Len(SlotFile(k)) < Len(NonAdditiveMetricsData.Target)
          /\ \A metricId \in 1..Len(NonAdditiveMetrics) :
                NonAdditiveMetricPlots[metricId][k + 1] = EmptyHolder

\* The number of records in the file of slot k of a store, 0 without file.
RecordCount(fs, names, k) ==
    IF k + 1 <= Len(names) /\ names[k + 1] \in DOMAIN fs THEN Len(fs[names[k + 1]]) ELSE 0

IsWindowBeginLoad(e) == e.op = "load" /\ e.slot % ProcessedIterationsStep = 0

\* The finish calls that have returned so far: each loads the first slot of
\* its window once.
Rounds == Len(SelectSeq(trace, IsWindowBeginLoad))

CeilDiv(a, b) == (a + b - 1) \div b

\* C13: only a finish call changes the cursor, and it moves it to
\* min(cursor + ProcessedIterationsStep, |Iterations|); a production call
\* appends the chunk's records to the files of exactly the slots from the
\* cursor to that bound; the cursor never decreases and never exceeds
\* |Iterations|; and the run is complete after exactly
\* ceil(|Iterations| / ProcessedIterationsStep) rounds.
C13_CursorAdvancesByWindow ==
    /\ [][ProcessedIterationsCount' # ProcessedIterationsCount =>
            /\ IsFinishStep
            /\ ProcessedIterationsCount' = WindowEnd
            /\ ProcessedIterationsCount' > ProcessedIterationsCount]_vars
    /\ [][IsProduceStep /\ pc' = "ready" =>
            \A k \in Slots :
                RecordCount(files', NonAdditiveMetricsData'.ApproxFiles, k)
                  - RecordCount(files, NonAdditiveMetricsData.ApproxFiles, k)
                = IF k \in WindowSlots
                  THEN GetObjectCount(windowFeeds'[Len(windowFeeds')]) ELSE 0]_vars
    /\ [](pc = "ready" =>
            /\ ProcessedIterationsCount <= SlotCount
            /\ ProcessedIterationsCount =
                  (IF Rounds * ProcessedIterationsStep <= SlotCount
                   THEN Rounds * ProcessedIterationsStep ELSE SlotCount)
            /\ (ProcessedIterationsCount = SlotCount) =
                  (Rounds = CeilDiv(SlotCount, ProcessedIterationsStep)))

\* A run of three checkpoints in windows of two is complete after two
\* rounds, the second over a window cut short.
C13_Witness ==
    /\ pc = "ready"
    /\ SlotCount = 3
    /\ ProcessedIterationsStep = 2
    /\ ProcessedIterationsCount = SlotCount
    /\ Rounds = 2

\* The chunk an additive step was called with.
AdditiveChunk == CHOOSE c \in Chunks : additiveFed'[c] # additiveFed[c]

\* C14: ProceedDataSetForAdditiveMetrics merges the chunk's contribution
\* into the accumulator of every additive metric at every checkpoint slot
\* and leaves the snapshot files, their names, the scratch directory, the
\* cursor, the resume reader, the non-additive working set and the
\* non-additive accumulators unchanged; the non-additive production and
\* finish calls leave the additive accumulators unchanged.
C14_AdditiveAndNonAdditiveFrames ==
    /\ [][IsAdditiveStep =>
            /\ UNCHANGED <<files, NonAdditiveMetricsData, tmpDirExists,
                           DeleteTmpDirOnExitFlag, guidCount, ProcessedIterationsCount,
                           LastApproxes, NonAdditiveMetricPlots>>
            /\ \E c \in {AdditiveChunk} : \A k \in Slots :
                  \E approx \in {UninterruptedApprox(c, k)} :
                      \A metricId \in 1..Len(AdditiveMetrics) :
                          AdditiveMetricPlots'[metricId][k + 1] =
                              HolderAdd(AdditiveMetricPlots[metricId][k + 1],
                                        EvalAdditive(AdditiveMetrics[metricId], approx,
                                                     GetTarget(c), GetWeights(c),
                                                     QueriesOf(c)))]_vars
    /\ [][IsProduceStep \/ IsFinishStep => AdditiveMetricPlots' = AdditiveMetricPlots]_vars

\* An additive call was made on a calcer that holds snapshot files, an open
\* resume reader and a window in production.
C14_Witness ==
    /\ pc = "ready"
    /\ additiveFed[1] = 1
    /\ SlotCount >= 2
    /\ \A metricId \in 1..Len(AdditiveMetrics) : \A k \in Slots :
          AdditiveMetricPlots[metricId][k + 1] # EmptyHolder
    /\ Len(AdditiveMetrics) = 2
    /\ ProcessedIterationsCount > 0
    /\ LastApproxes.open
    /\ windowFeeds # <<>>
    /\ Cardinality(DOMAIN files) >= 2

\* The documents of a sequence of chunks, in feed order.
RECURSIVE DocsOfFeeds(_)
DocsOfFeeds(feeds) ==
    IF feeds = <<>> THEN <<>> ELSE DocsOf(Head(feeds)) \o DocsOfFeeds(Tail(feeds))

TargetsOfDocs(docs) == [i \in 1..Len(docs) |-> TargetOf(docs[i])]

WeightsOfDocs(docs) == [i \in 1..Len(docs) |-> WeightOf(docs[i])]

\* The chunks the working set was built from: those of the first window.
WorkingSetFeeds == IF ProcessedIterationsCount = 0 THEN windowFeeds ELSE firstFeeds

\* C15: the working set changes only in a production call made while the
\* cursor is 0, which appends the targets and the weights of the chunk fed;
\* so it is the targets and weights of the chunks fed to the first window,
\* in feed order, and stays so in every later window.
C15_WorkingSetBuiltOnce ==
    /\ [][NonAdditiveMetricsData'.Target # NonAdditiveMetricsData.Target
          \/ NonAdditiveMetricsData'.Weights # NonAdditiveMetricsData.Weights =>
            /\ IsProduceStep
            /\ ProcessedIterationsCount = 0
            /\ NonAdditiveMetricsData'.Target =
                  NonAdditiveMetricsData.Target
                    \o TargetsOfDocs(DocsOf(windowFeeds'[Len(windowFeeds')]))
            /\ NonAdditiveMetricsData'.Weights =
                  NonAdditiveMetricsData.Weights
                    \o WeightsOfDocs(DocsOf(windowFeeds'[Len(windowFeeds')]))]_vars
    /\ [](pc = "ready" =>
            /\ NonAdditiveMetricsData.Target = TargetsOfDocs(DocsOfFeeds(WorkingSetFeeds))
            /\ NonAdditiveMetricsData.Weights = WeightsOfDocs(DocsOfFeeds(WorkingSetFeeds))
            /\ Len(NonAdditiveMetricsData.Target) = GetDocCount(WorkingSetFeeds)
            /\ Len(NonAdditiveMetricsData.Weights) = GetDocCount(WorkingSetFeeds))

\* A chunk is being fed to the third window of a run whose first window was
\* fed both chunks, the second chunk first.
C15_Witness ==
    /\ pc = "ready"
    /\ firstFeeds = <<2, 1>>
    /\ ProcessedIterationsCount >= 2
    /\ ProcessedIterationsStep = 1
    /\ windowFeeds # <<>>
    /\ NonAdditiveMetricsData.Target = <<TargetOf(3), TargetOf(1), TargetOf(2)>>

(***************************************************************************)
(* ComputeNonAdditiveMetrics(datasetParts): the full dataset supplied as   *)
(* parts, every checkpoint evaluated in one pass without snapshots.        *)
(***************************************************************************)
BuildTargets(datasetParts) == ConcatOver(datasetParts, [c \in Chunks |-> GetTarget(c)])

BuildWeights(datasetParts) == ConcatOver(datasetParts, [c \in Chunks |-> GetWeights(c)])

\* Mutant: every part starts at document 0.
GetStartDocIdxZero(datasetParts) == [p \in 1..Len(datasetParts) |-> 0]

GetStartDocIdx(datasetParts) ==
    [p \in 1..Len(datasetParts) |-> GetDocCount(SubSeq(datasetParts, 1, p - 1))]

\* The inner loop: the trees [begin, end) of every part added at its offset.
RECURSIVE ApplyParts(_, _, _, _, _)
ApplyParts(datasetParts, poolPartIdx, begin, end, curApprox) ==
    IF poolPartIdx > Len(datasetParts) THEN curApprox
    ELSE ApplyParts(datasetParts, poolPartIdx + 1, begin, end,
                    AppendApprox(ApplyModelMulti(datasetParts[poolPartIdx], begin, end),
                                 curApprox, GetStartDocIdx(datasetParts)[poolPartIdx]))

RECURSIVE PartsLoop(_, _, _, _, _)
PartsLoop(datasetParts, iterationIndex, begin, curApprox, plots) ==
    IF iterationIndex >= Len(Iterations) THEN plots
    ELSE LET end == It(iterationIndex) + 1
             cur2 == ApplyParts(datasetParts, 1, begin, end, curApprox)
             allTargets == BuildTargets(datasetParts)
         IN  PartsLoop(datasetParts, iterationIndex + 1, end, cur2,
                [metricId \in 1..Len(plots) |->
                    [plots[metricId] EXCEPT ![iterationIndex + 1] =
                        EvalNonAdditive(NonAdditiveMetrics[metricId], cur2, allTargets,
                                        BuildWeights(datasetParts), Len(allTargets))]])

\* ok is FALSE at the CB_ENSURE of InitApproxBuffer.
ComputeNonAdditiveMetricsOfParts(datasetParts) ==
    LET init == InitApproxBuffer(ApproxDimension, datasetParts, TRUE)
    IN  IF init.ok
        THEN [ok |-> TRUE,
              plots |-> PartsLoop(datasetParts, 0, 0, init.approxMatrix, NonAdditiveMetricPlots)]
        ELSE [ok |-> FALSE, plots |-> NonAdditiveMetricPlots]

\* The parts a dataset is supplied as: one or both chunks, in either order.
PartLists == {<<1>>, <<2>>, <<1, 2>>, <<2, 1>>}

IsParts(e) == e.op = "parts"

\* The parts of a call as a number, for the history.
PartsCode(datasetParts) ==
    IF Len(datasetParts) = 1 THEN datasetParts[1] ELSE 10 * datasetParts[1] + datasetParts[2]

\* The callers take this path once, on a calcer that has not begun a
\* windowed run.
ComputeNonAdditiveMetricsParts(datasetParts) ==
    /\ pc = "ready"
    /\ NonAdditiveMetrics # <<>>
    /\ ProcessedIterationsCount = 0
    /\ windowFeeds = <<>>
    /\ SelectSeq(trace, IsParts) = <<>>
    /\ LET r == ComputeNonAdditiveMetricsOfParts(datasetParts)
       IN  /\ pc' = IF r.ok THEN "ready" ELSE "failed"
           /\ NonAdditiveMetricPlots' = r.plots
    /\ trace' = Append(trace, Event("parts", 0, PartsCode(datasetParts)))
    /\ UNCHANGED <<args, baselineChunks, First, Last, Step, Iterations,
                   AdditiveMetrics, AdditiveMetricsIndices, NonAdditiveMetrics,
                   NonAdditiveMetricsIndices, AdditiveMetricPlots,
                   ProcessedIterationsCount, ProcessedIterationsStep,
                   NonAdditiveMetricsData, LastApproxes, DeleteTmpDirOnExitFlag,
                   tmpDirExists, files, guidCount, additiveFed, windowFeeds,
                   firstFeeds, protocol, saved, logger>>

\* The plans of three checkpoints at most, in windows of two.
PartsArgValues ==
    {a \in ArgValues : /\ a.last = 3 /\ a.processIterationStep = 2
                       /\ a.metrics \in RunMetricLists}

\* No chunk, the first chunk or both chunks carry a baseline; TmpDir exists
\* or not.
InitParts == InitWith(PartsArgValues, {{}, {1}, {1, 2}}, BOOLEAN)

NextParts ==
    \/ Next
    \/ \E datasetParts \in PartLists : ComputeNonAdditiveMetricsParts(datasetParts)

SpecParts == InitParts /\ [][NextParts]_vars

\* The parts the step's call was made with.
StepParts == CHOOSE parts \in PartLists : PartsCode(parts) = trace'[Len(trace')].who

\* Every part's uninterrupted prediction at slot k, at the part's offset.
PartsApprox(parts, k) ==
    [dim \in 1..ApproxDimension |->
        ConcatOver(parts, [c \in Chunks |-> UninterruptedApprox(c, k)[dim]])]

ConsistentBaselines(parts) ==
    \A p \in 1..Len(parts) : (parts[p] \in baselineChunks) = (parts[1] \in baselineChunks)

\* C18: a call of ComputeNonAdditiveMetrics(datasetParts) sets every
\* (non-additive metric, slot k) accumulator to the metric's evaluation of
\* the matrix that holds, for each part in supplied order at its document
\* offset, the part's baseline plus the deltas of the trees 0..Iterations[k],
\* against the parts' targets and weights concatenated in the same order;
\* it fails exactly when the parts disagree on having a baseline; it
\* creates no snapshot file and leaves the cursor, the working set and the
\* scratch directory as they were.
C18_PartsPathEvaluatesWholeDataset ==
    [][IsPartsStep =>
         /\ UNCHANGED <<files, NonAdditiveMetricsData, ProcessedIterationsCount,
                        LastApproxes, tmpDirExists, DeleteTmpDirOnExitFlag, guidCount>>
         /\ (pc' = "ready") = ConsistentBaselines(StepParts)
         /\ pc' = "ready" =>
               \A metricId \in 1..Len(NonAdditiveMetrics) : \A k \in Slots :
                   NonAdditiveMetricPlots'[metricId][k + 1] =
                       EvalNonAdditive(NonAdditiveMetrics[metricId],
                                       PartsApprox(StepParts, k),
                                       TargetsOfDocs(DocsOfFeeds(StepParts)),
                                       WeightsOfDocs(DocsOfFeeds(StepParts)),
                                       GetDocCount(StepParts))]_vars

\* The dataset was supplied as the second chunk followed by the first, both
\* with baselines, to a calcer whose plan starts at iteration 1 and ends in
\* an appended checkpoint.
C18_Witness ==
    /\ pc = "ready"
    /\ trace = <<Event("parts", 0, PartsCode(<<2, 1>>))>>
    /\ baselineChunks = {1, 2}
    /\ Iterations = <<1, 2>>
    /\ \A metricId \in 1..Len(NonAdditiveMetrics) : \A k \in Slots :
          NonAdditiveMetricPlots[metricId][k + 1][2] = 3
    /\ DOMAIN files = {}
    /\ ProcessedIterationsCount = 0

\* C16: DeleteTmpDirOnExitFlag is set only in a step that finds no scratch
\* directory and creates it, which is a production or finish call that
\* makes a snapshot name; while the directory exists, from the start or
\* made by the run, the flag keeps its value, so a directory that existed
\* before the run is never marked; additive calls and the multi-part path
\* neither create nor mark the directory.
C16_MarkOnlyOwnDirectory ==
    /\ [](pc = "new" => ~DeleteTmpDirOnExitFlag)
    /\ [](DeleteTmpDirOnExitFlag => tmpDirExists)
    /\ [][DeleteTmpDirOnExitFlag' # DeleteTmpDirOnExitFlag =>
            ~tmpDirExists /\ tmpDirExists' /\ DeleteTmpDirOnExitFlag']_vars
    /\ [][tmpDirExists' # tmpDirExists =>
            /\ tmpDirExists' /\ DeleteTmpDirOnExitFlag'
            /\ IsProduceStep \/ IsFinishStep
            /\ NonAdditiveMetricsData'.ApproxFiles # NonAdditiveMetricsData.ApproxFiles]_vars
    /\ [][IsAdditiveStep \/ IsPartsStep =>
            UNCHANGED <<tmpDirExists, DeleteTmpDirOnExitFlag>>]_vars

\* Snapshots were made in a directory that existed before the run, and the
\* directory is not marked.
C16_Witness ==
    /\ pc = "ready"
    /\ tmpDirExists
    /\ ~DeleteTmpDirOnExitFlag
    /\ guidCount >= 2
    /\ ProcessedIterationsCount > 0

\* C17: a ProceedDataSet call that starts at slot 0 applies contiguous tree
\* ranges from tree 0 on, so that the matrix it hands over at slot k is the
\* chunk's baseline (zero without one) plus the deltas of exactly the trees
\* 0..Iterations[k]: in the first non-additive window the matrices saved at
\* slot k are those of the chunks fed, in feed order, and an additive call
\* merges the evaluation of that matrix at every slot, in increasing slot
\* order; also when First > 0.
C17_FirstPassTreeRanges ==
    /\ [](pc = "ready" /\ ProcessedIterationsCount = 0 =>
            \A k \in Slots :
                saved[k + 1] =
                    IF k \in WindowSlots
                    THEN [i \in 1..Len(windowFeeds) |-> UninterruptedApprox(windowFeeds[i], k)]
                    ELSE <<>>)
    /\ [][IsAdditiveStep =>
            \E c \in {AdditiveChunk} :
            \E approx \in {[slot \in 1..SlotCount |-> UninterruptedApprox(c, slot - 1)]} :
                AdditiveMetricPlots' =
                    [metricId \in 1..Len(AdditiveMetrics) |->
                        [slot \in 1..SlotCount |->
                            HolderAdd(AdditiveMetricPlots[metricId][slot],
                                      EvalAdditive(AdditiveMetrics[metricId], approx[slot],
                                                   GetTarget(c), GetWeights(c),
                                                   QueriesOf(c)))]]]_vars

\* Both chunks were fed to the first window, of two slots, of a plan that
\* starts at iteration 1, and the first chunk to the additive metrics.
C17_Witness ==
    /\ pc = "ready"
    /\ ProcessedIterationsCount = 0
    /\ First = 1
    /\ ProcessedIterationsStep = 2
    /\ SlotCount >= 2
    /\ Len(windowFeeds) = 2
    /\ Len(saved[2]) = 2
    /\ additiveFed[1] = 1

\* A record is a prediction of document d: its components are the factors
\* of d in every dimension times one positive sum of trees and baseline.
RecordIsOf(record, d) ==
    /\ record[1] > 0
    /\ \A dim \in 1..ApproxDimension : record[dim] * Coef(d, 1) = record[1] * Coef(d, dim)

\* Record i of a sequence of records belongs to the i-th of the documents.
Aligned(records, docs) ==
    /\ Len(records) <= Len(docs)
    /\ \A i \in 1..Len(records) : RecordIsOf(records[i], docs[i])

WorkingSetDocs == DocsOfFeeds(WorkingSetFeeds)

IsReordering(feeds, reference) ==
    /\ feeds # reference
    /\ Len(feeds) = Len(reference)
    /\ \A c \in Chunks :
          Cardinality({i \in 1..Len(feeds) : feeds[i] = c})
            = Cardinality({i \in 1..Len(reference) : reference[i] = c})

\* C19: while every window is fed the chunks of the first window in their
\* order, record i of every snapshot is a prediction of the document whose
\* target is at position i of the working set, a finished slot holding one
\* record per working-set document, and each chunk of a resumed window
\* reads from the resume reader the records of its own documents; a later
\* window fed the same chunks in another order is produced and finished
\* without error although records of its snapshots belong to other
\* documents than the targets they are scored against.
C19_DocumentAlignment ==
    /\ [](InProtocol =>
            /\ \A i \in 1..Len(WorkingSetDocs) :
                  NonAdditiveMetricsData.Target[i] = TargetOf(WorkingSetDocs[i])
            /\ \A k \in Slots :
                  SlotFileExists(k) =>
                      /\ Aligned(SlotFile(k), WorkingSetDocs)
                      /\ Len(SlotFile(k)) = GetDocCount(FeedsOfSlot(k)))
    /\ [][IsProduceStep /\ ProcessedIterationsCount > 0 /\ InProtocol' =>
            /\ LastApproxes'.pos - LastApproxes.pos
                  = GetObjectCount(windowFeeds'[Len(windowFeeds')])
            /\ Aligned(SubSeq(LastApproxes.content, LastApproxes.pos + 1, LastApproxes'.pos),
                       DocsOf(windowFeeds'[Len(windowFeeds')]))]_vars
    /\ [][IsFinishStep /\ protocol /\ ProcessedIterationsCount > 0
          /\ IsReordering(windowFeeds, firstFeeds) =>
            /\ pc' = "ready"
            /\ ProcessedIterationsCount' = WindowEnd
            /\ \A k \in WindowSlots :
                  /\ Len(SlotFile(k)) = Len(WorkingSetDocs)
                  /\ ~Aligned(SlotFile(k), WorkingSetDocs)]_vars

\* A window fed the chunks of the first window in the other order has been
\* finished without error.
C19_Witness ==
    /\ pc = "ready"
    /\ ~protocol
    /\ firstFeeds = <<1, 2>>
    /\ ProcessedIterationsCount > ProcessedIterationsStep
    /\ \A metricId \in 1..Len(NonAdditiveMetrics) :
          NonAdditiveMetricPlots[metricId][ProcessedIterationsCount][2] = 3

\* The names of the slots that may have a file: the window at the cursor
\* and the slot before it.
LiveNames ==
    {NonAdditiveMetricsData.ApproxFiles[k + 1] :
        k \in {j \in Slots : /\ j + 1 >= ProcessedIterationsCount
                             /\ j < WindowEnd
                             /\ SlotHasName(j)}}

\* C20: in a run that follows the protocol the snapshot files on disk are
\* files of the slots of the window at the cursor or of the slot before
\* it, so there are at most ProcessedIterationsStep + 1 of them, whatever
\* the number of checkpoints.
C20_BoundedDiskFootprint ==
    Constructed /\ protocol =>
        /\ DOMAIN files \subseteq LiveNames
        /\ Cardinality(DOMAIN files) <= ProcessedIterationsStep + 1

\* The last of four windows of one slot is in production: two files exist.
C20_Witness ==
    /\ InProtocol
    /\ SlotCount = 4
    /\ ProcessedIterationsStep = 1
    /\ ProcessedIterationsCount = 3
    /\ Cardinality(DOMAIN files) = ProcessedIterationsStep + 1

(***************************************************************************)
(* SaveResult: the logger with its metadata, then one logged row for       *)
(* every column of the score matrix.                                       *)
(***************************************************************************)
\* ceil((iterationEnd - iterationBegin) / (iterationPeriod + 0.0)), cast to int.
IterationsCountOf(iterationBegin, iterationEnd, iterationPeriod) ==
    LET span == iterationEnd - iterationBegin
    IN  IF span % iterationPeriod = 0
        THEN span \div iterationPeriod
        ELSE (span \div iterationPeriod) + 1

\* CreateLogger: TLogger(iterationBegin, iterationEnd - 1, iterationPeriod)
\* and the metadata of the JSON backend; nothing is logged yet.
CreateLogger(iterationBegin, iterationEnd, iterationPeriod, metrics) ==
    [saved |-> TRUE,
     first |-> iterationBegin, last |-> iterationEnd - 1, period |-> iterationPeriod,
     iterationsCount |-> IterationsCountOf(iterationBegin, iterationEnd, iterationPeriod),
     metrics |-> metrics,
     rows |-> <<>>]

\* metrics[indices[metricId]] = group[metricId], from metricId on.
RECURSIVE PlaceMetrics(_, _, _, _)
PlaceMetrics(metrics, group, indices, metricId) ==
    IF metricId >= Len(group) THEN metrics
    ELSE PlaceMetrics([metrics EXCEPT ![indices[metricId + 1] + 1] = group[metricId + 1]],
                      group, indices, metricId + 1)

\* The metrics in their original order: the two loops of SaveResult over a
\* vector of AdditiveMetrics.size() + NonAdditiveMetrics.size() null pointers.
SavedMetrics ==
    PlaceMetrics(
        PlaceMetrics([i \in 1..(Len(AdditiveMetrics) + Len(NonAdditiveMetrics)) |-> <<>>],
                     AdditiveMetrics, AdditiveMetricsIndices, 0),
        NonAdditiveMetrics, NonAdditiveMetricsIndices, 0)

\* TOneInterationLogger of one column: the value of every metric.
LoggedRow(metrics, results, iteration) ==
    [metricIdx \in 1..Len(results) |->
        [description |-> metrics[metricIdx], value |-> results[metricIdx][iteration + 1]]]

\* for (iteration = 0; iteration < count; ++iteration), from iteration on.
RECURSIVE LogLoop(_, _, _, _, _)
LogLoop(log, metrics, results, count, iteration) ==
    IF iteration >= count THEN log
    ELSE LogLoop([log EXCEPT !.rows = Append(@, LoggedRow(metrics, results, iteration))],
                 metrics, results, count, iteration + 1)

\* results[0].ysize().  With no metric the score matrix has no row and
\* results[0] is read out of bounds: any count, or a crash (-1).
ColumnCounts(results) ==
    IF Len(results) > 0 THEN {Len(results[1])} ELSE -1..MaxLast

\* TMetricsPlotCalcer::SaveResult, called at most once in a run.  The files
\* under resultDir are the logger's backends; partial_stats.tsv is written
\* by code outside plot.cpp and is not part of the state.
SaveResult ==
    /\ pc = "ready"
    /\ ~logger.saved
    /\ \E results \in {GetMetricsScore} : \E count \in ColumnCounts(results) :
          IF count < 0
          THEN /\ pc' = "failed"
               /\ logger' = CreateLogger(First, Last, Step, SavedMetrics)
          ELSE /\ pc' = pc
               /\ logger' = LogLoop(CreateLogger(First, Last, Step, SavedMetrics),
                                    SavedMetrics, results, count, 0)
    /\ UNCHANGED <<args, baselineChunks, First, Last, Step, Iterations,
                   AdditiveMetrics, AdditiveMetricsIndices, NonAdditiveMetrics,
                   NonAdditiveMetricsIndices, AdditiveMetricPlots, NonAdditiveMetricPlots,
                   ProcessedIterationsCount, ProcessedIterationsStep,
                   NonAdditiveMetricsData, LastApproxes, DeleteTmpDirOnExitFlag,
                   tmpDirExists, files, guidCount, additiveFed, windowFeeds,
                   firstFeeds, protocol, trace, saved>>

\* Every valid (first, last, step) with the mix of metrics and a window of
\* one checkpoint, and the run of two checkpoints without any metric.
SaveArgValues ==
    {a \in ArgValues : a.metrics \in RunMetricLists /\ a.processIterationStep = 1}
    \cup [first : {0}, last : {2}, step : {1}, processIterationStep : {1},
          metrics : {<<>>}]

InitSave == InitWith(SaveArgValues, {{1}}, {FALSE})

NextSave ==
    \/ Next
    \/ SaveResult

SpecSave == InitSave /\ [][NextSave]_vars

\* C21: after SaveResult on a calcer with at least one metric, the iteration
\* count announced in the logger's metadata equals the number of logged
\* rows, which is the number of checkpoints |Iterations|.
C21_AnnouncedCountIsLoggedCount ==
    (logger.saved /\ Len(logger.metrics) > 0) =>
        /\ Len(logger.rows) = Len(Iterations)
        /\ logger.iterationsCount = Len(logger.rows)

\* What the code does: one row is logged per checkpoint; the announced count
\* is the size of the step grid, which is one short of the number of
\* checkpoints exactly when last - 1 is off the grid and was appended.
C21_AnnouncedCountIsGridCount ==
    (logger.saved /\ Len(logger.metrics) > 0) =>
        /\ Len(logger.rows) = Len(Iterations)
        /\ logger.iterationsCount = Len(BuildIterationsGridOnly(First, Last, Step))
        /\ IF (Last - 1 - First) % Step = 0
           THEN logger.iterationsCount = Len(Iterations)
           ELSE logger.iterationsCount + 1 = Len(Iterations)

\* SaveResult was called after every checkpoint was processed, on a run
\* whose final checkpoint is off the step grid.
C21_Witness ==
    /\ logger.saved
    /\ Len(logger.metrics) > 0
    /\ pc = "ready"
    /\ ProcessedIterationsCount = Len(Iterations)
    /\ (Last - 1 - First) % Step # 0
    /\ Len(logger.rows) = logger.iterationsCount + 1

====
